---- MODULE Spec2Model ----
(***************************************************************************)
(* The libFuzzer mutation engine (FuzzerMutate.cpp): MutationDispatcher,   *)
(* its mutators, its three dictionaries and its sequence bookkeeping.      *)
(* Buffers are sequences of bytes 0..255; C offset i is element i + 1.     *)
(***************************************************************************)
EXTENDS Integers, Sequences, FiniteSets, TLC

\* ------------------------------------------------------------------ bounds
\* Largest MaxSize a caller passes to Mutate.
MaxCap == 5
\* Number of Mutate calls in a run of Spec.
MaxCalls == 1
\* Largest number of words added to the manual or to the temporary dictionary.
MaxDict == 1
\* Largest MaxSize and number of Mutate calls in a run of SpecDict.
MaxDictCap == 3
MaxDictCalls == 2
\* Number of RecordSuccessfulMutationSequence calls in a run of SpecDict.
MaxRecs == 1

\* ------------------------------------------------------- program constants
kMinBytesToInsert == 3
kMaxBytesToInsert == 128
kMaxIter == 10
kMaxShuffle == 8
kMaxDictSize == 16384
kMaxAutoDictSize == 16384
\* sizeof(Special) is the size of a pointer (a const char *), 8 on LP64.
kSizeofSpecial == 8
\* std::numeric_limits<size_t>::max() as a position hint (no hint).
NoPositionHint == -1

Min(a, b) == IF a < b THEN a ELSE b
Max(a, b) == IF a > b THEN a ELSE b

\* --------------------------------------------------------- Random Source
\* Rand(n): the values a draw below n can give.  The draw with n = 0 gives 0,
\* the one value with which the assertions on lines 100 and 210 can hold.
Rand(n) == IF n = 0 THEN {0} ELSE 0 .. (n - 1)
RandBool == {TRUE, FALSE}
\* The byte values enumerated for a draw Rand(256).
ByteSample == {0, 255}
Rand256 == Rand(256) \cap ByteSample

Special == <<33, 42, 39, 40, 41, 59, 58, 64, 38, 61, 43, 36, 44, 47, 63, 37,
             35, 91, 93, 48, 49, 50, 65, 122, 45, 96, 126, 46, 255, 0>>
\* The indices into Special enumerated for a draw.
SpecialSample == {0}
RandCh == Rand256 \cup {Special[i + 1] : i \in Rand(kSizeofSpecial - 1) \cap SpecialSample}

\* ------------------------------------------------------------ raw memory
\* A buffer under mutation: its bytes, and hi = 1 + the highest offset
\* written so far (0 when nothing was written).
Mem(buf) == [buf |-> buf, hi |-> 0]
Slice(buf, off, n) == [k \in 1 .. n |-> buf[off + k]]
memcpy(m, off, bytes) ==
  [buf |-> [i \in 1 .. Len(m.buf) |->
              IF i - 1 >= off /\ i - 1 < off + Len(bytes)
              THEN bytes[i - off] ELSE m.buf[i]],
   hi |-> IF Len(bytes) = 0 THEN m.hi ELSE Max(m.hi, off + Len(bytes))]
\* memmove inside one buffer: the source bytes are read before any is written.
memmove(m, dst, src, n) == memcpy(m, dst, Slice(m.buf, src, n))
\* std::vector<uint8_t>::resize
Resize(v, n) == [i \in 1 .. n |-> IF i <= Len(v) THEN v[i] ELSE 0]

isdigit(c) == c >= 48 /\ c <= 57
isprint(c) == c >= 32 /\ c <= 126
isspace(c) == (c >= 9 /\ c <= 13) \/ c = 32
ToASCIIByte(x) == LET y == x % 128 IN IF isspace(y) \/ isprint(y) THEN y ELSE 32
ToASCII(buf, n) == [i \in 1 .. Len(buf) |-> IF i <= n THEN ToASCIIByte(buf[i]) ELSE buf[i]]

\* ------------------------------------------------------------ dispatcher
VARIABLES
  Data, Size, MaxSize,            \* the arguments of the Mutate call in progress
  pc, Iter,                       \* position in MutateImpl: "idle", "loop", "aborted"
  Data0,                          \* the buffer as the caller passed it
  Ret,                            \* what the last finished Mutate returned
  ManualDictionary, TempAutoDictionary, PersistentAutoDictionary,
  CurrentMutatorSequence, CurrentDictionaryEntrySequence,
  MutateInPlaceHere,
  Corpus, OnlyASCII, HasCustomMutator, HasCustomCrossOver,
  Recommended,                    \* what PrintRecommendedDictionary printed last
  last,                           \* the last operation: its name, result and draws
  ncalls, nrecs                   \* Mutate and Record calls made so far

vars == <<Data, Size, MaxSize, pc, Iter, Data0, Ret,
          ManualDictionary, TempAutoDictionary, PersistentAutoDictionary,
          CurrentMutatorSequence, CurrentDictionaryEntrySequence,
          MutateInPlaceHere, Corpus, OnlyASCII, HasCustomMutator,
          HasCustomCrossOver, Recommended, last, ncalls, nrecs>>

\* The dispatcher's fields a mutator reads and writes, as one record.
This == [Data |-> Mem(Data),
         Manual |-> ManualDictionary, Temp |-> TempAutoDictionary,
         Pers |-> PersistentAutoDictionary,
         CDES |-> CurrentDictionaryEntrySequence,
         MIPH |-> MutateInPlaceHere]

NoInfo == [kind |-> "", a |-> 0, b |-> 0, c |-> 0]
Info(k, a, b, c) == [kind |-> k, a |-> a, b |-> b, c |-> c]
\* One outcome of a mutator: the size it returns, the fields after it, its draws.
Out(ret, st, info) == [ret |-> ret, st |-> st, info |-> info]

\* ------------------------------------------------------ byte-level mutators
Mutate_EraseBytes(S, Sz, MaxSz) ==
  IF Sz = 1 THEN {Out(0, S, Info("fail", 0, 0, 0))}
  ELSE {Out(Sz - N,
            [S EXCEPT !.Data = memmove(S.Data, Idx, Idx + N, Sz - Idx - N)],
            Info("erase", N, Idx, 0)) :
          <<N, Idx>> \in {<<n, i>> \in (1 .. Sz) \X (0 .. Sz) :
                            /\ n - 1 \in Rand(Sz \div 2)
                            /\ i \in Rand(Sz - n + 1)}}

\* Mutate_InsertByte with its capacity check off by one.
Mutate_InsertByte_LateCheck(S, Sz, MaxSz) ==
  IF Sz > MaxSz THEN {Out(0, S, Info("fail", 0, 0, 0))}
  ELSE {Out(Sz + 1,
            [S EXCEPT !.Data = memcpy(memmove(S.Data, Idx + 1, Idx, Sz - Idx),
                                      Idx, <<ch>>)],
            Info("insert", Idx, ch, 0)) :
          <<Idx, ch>> \in Rand(Sz + 1) \X RandCh}

Mutate_InsertByte(S, Sz, MaxSz) ==
  IF Sz = MaxSz THEN {Out(0, S, Info("fail", 0, 0, 0))}
  ELSE {Out(Sz + 1,
            [S EXCEPT !.Data = memcpy(memmove(S.Data, Idx + 1, Idx, Sz - Idx),
                                      Idx, <<ch>>)],
            Info("insert", Idx, ch, 0)) :
          <<Idx, ch>> \in Rand(Sz + 1) \X RandCh}

\* The byte InsertRepeatedBytes repeats: a drawn byte, or 0x00, or 0xff.
RepeatedByte == Rand256 \cup {0, 255}

Mutate_InsertRepeatedBytes(S, Sz, MaxSz) ==
  IF Sz + kMinBytesToInsert >= MaxSz THEN {Out(0, S, Info("fail", 0, 0, 0))}
  ELSE LET MaxBytesToInsert == Min(MaxSz - Sz, kMaxBytesToInsert) IN
       {Out(Sz + d[1],
            [S EXCEPT !.Data = memcpy(memmove(S.Data, d[2] + d[1], d[2], Sz - d[2]),
                                      d[2], [i \in 1 .. d[1] |-> d[3]])],
            Info("insert", d[1], d[2], d[3])) :
          d \in {kMinBytesToInsert + r :
                   r \in Rand(MaxBytesToInsert - kMinBytesToInsert + 1)}
                \X Rand(Sz + 1) \X RepeatedByte}

Mutate_ChangeByte(S, Sz, MaxSz) ==
  {Out(Sz, [S EXCEPT !.Data = memcpy(S.Data, Idx, <<ch>>)],
       Info("change", Idx, ch, 0)) :
     <<Idx, ch>> \in Rand(Sz) \X RandCh}

\* x ^ (1 << k) on a byte
FlipBit(x, k) == IF (x \div (2 ^ k)) % 2 = 1 THEN x - 2 ^ k ELSE x + 2 ^ k

Mutate_ChangeBit(S, Sz, MaxSz) ==
  {Out(Sz, [S EXCEPT !.Data = memcpy(S.Data, Idx,
                                     <<FlipBit(S.Data.buf[Idx + 1], k)>>)],
       Info("flip", Idx, k, 0)) :
     <<Idx, k>> \in Rand(Sz) \X Rand(8)}

\* std::random_shuffle can leave the range in any order.
Mutate_ShuffleBytes(S, Sz, MaxSz) ==
  UNION {
    LET ShuffleAmount == r + 1 IN
    UNION {
      {Out(Sz,
           [S EXCEPT !.Data = memcpy(S.Data, ShuffleStart,
               [k \in 1 .. ShuffleAmount |-> S.Data.buf[ShuffleStart + p[k]]])],
           Info("shuffle", ShuffleAmount, ShuffleStart, 0)) :
         p \in Permutations(1 .. ShuffleAmount)} :
      ShuffleStart \in Rand(Sz - ShuffleAmount)} :
    r \in Rand(Min(Sz, kMaxShuffle))}

\* ------------------------------------------------------------ dictionaries
\* A Dictionary is a fixed array of entries and a size; an entry is pointed
\* to by the dictionary's name and its index.
EmptyDictionary == [DE |-> <<>>, Size |-> 0]
DictionaryEntry(W, PositionHint) ==
  [W |-> W, PositionHint |-> PositionHint, UseCount |-> 0, SuccessCount |-> 0]
\* The entry RecordSuccessfulMutationSequence builds: {W, 1}.
EntryWithSuccessCountOne(W) ==
  [W |-> W, PositionHint |-> NoPositionHint, UseCount |-> 0, SuccessCount |-> 1]
HasPositionHint(DE) == DE.PositionHint # NoPositionHint
ContainsWord(D, W) == \E i \in 1 .. D.Size : D.DE[i].W = W
push_back(D, E) ==
  IF D.Size >= kMaxDictSize THEN D
  ELSE [DE |-> IF D.Size < Len(D.DE) THEN [D.DE EXCEPT ![D.Size + 1] = E]
               ELSE Append(D.DE, E),
        Size |-> D.Size + 1]
clear(D) == [D EXCEPT !.Size = 0]
IncUseCount(DE) == [DE EXCEPT !.UseCount = @ + 1]
IncSuccessCount(DE) == [DE EXCEPT !.SuccessCount = @ + 1]

\* AddWordFromDictionary refusing an insertion that fills the buffer.
AddWordFromDictionary_InsertNeedsSpare(d, S, Sz, MaxSz) ==
  LET D == S[d] IN
  IF D.Size = 0 THEN {Out(0, S, Info("empty", 0, 0, 0))}
  ELSE UNION {
    LET DE == D.DE[e + 1]
        W == DE.W
        HintFits == HasPositionHint(DE) /\ DE.PositionHint + Len(W) < Sz
        Used(data, Idx, kind, NewSz) ==
          Out(NewSz,
              [S EXCEPT !.Data = data,
                        ![d].DE[e + 1] = IncUseCount(DE),
                        !.CDES = Append(@, [d |-> d, i |-> e + 1])],
              Info(kind, e + 1, Idx, Len(W)))
    IN UNION {
         \* Insert W.
         (IF Sz + Len(W) >= MaxSz
          THEN {Out(0, S, Info("insert", e + 1, 0, Len(W)))}
          ELSE {Used(memcpy(memmove(S.Data, Idx + Len(W), Idx, Sz - Idx), Idx, W),
                     Idx, "insert", Sz + Len(W)) :
                  Idx \in IF UsePositionHint THEN {DE.PositionHint} ELSE Rand(Sz + 1)})
         \cup
         \* Overwrite some bytes with W.
         (IF Len(W) > Sz
          THEN {Out(0, S, Info("overwrite", e + 1, 0, Len(W)))}
          ELSE {Used(memcpy(S.Data, Idx, W), Idx, "overwrite", Sz) :
                  Idx \in IF UsePositionHint THEN {DE.PositionHint}
                          ELSE Rand(Sz - Len(W))}) :
         UsePositionHint \in IF HintFits THEN RandBool ELSE {FALSE}} :
    e \in Rand(D.Size)}

AddWordFromDictionary(d, S, Sz, MaxSz) ==
  LET D == S[d] IN
  IF D.Size = 0 THEN {Out(0, S, Info("empty", 0, 0, 0))}
  ELSE UNION {
    LET DE == D.DE[e + 1]
        W == DE.W
        HintFits == HasPositionHint(DE) /\ DE.PositionHint + Len(W) < Sz
        Used(data, Idx, kind, NewSz) ==
          Out(NewSz,
              [S EXCEPT !.Data = data,
                        ![d].DE[e + 1] = IncUseCount(DE),
                        !.CDES = Append(@, [d |-> d, i |-> e + 1])],
              Info(kind, e + 1, Idx, Len(W)))
    IN UNION {
         \* Insert W.
         (IF Sz + Len(W) > MaxSz
          THEN {Out(0, S, Info("insert", e + 1, 0, Len(W)))}
          ELSE {Used(memcpy(memmove(S.Data, Idx + Len(W), Idx, Sz - Idx), Idx, W),
                     Idx, "insert", Sz + Len(W)) :
                  Idx \in IF UsePositionHint THEN {DE.PositionHint} ELSE Rand(Sz + 1)})
         \cup
         \* Overwrite some bytes with W.
         (IF Len(W) > Sz
          THEN {Out(0, S, Info("overwrite", e + 1, 0, Len(W)))}
          ELSE {Used(memcpy(S.Data, Idx, W), Idx, "overwrite", Sz) :
                  Idx \in IF UsePositionHint THEN {DE.PositionHint}
                          ELSE Rand(Sz - Len(W))}) :
         UsePositionHint \in IF HintFits THEN RandBool ELSE {FALSE}} :
    e \in Rand(D.Size)}

Mutate_AddWordFromManualDictionary(S, Sz, MaxSz) ==
  AddWordFromDictionary("Manual", S, Sz, MaxSz)
Mutate_AddWordFromTemporaryAutoDictionary(S, Sz, MaxSz) ==
  AddWordFromDictionary("Temp", S, Sz, MaxSz)
Mutate_AddWordFromPersistentAutoDictionary(S, Sz, MaxSz) ==
  AddWordFromDictionary("Pers", S, Sz, MaxSz)

\* ------------------------------------------------- copy / insert primitives
\* Outcomes [ret, m, info] with m the destination after the call.  From is
\* the source's bytes when the call starts.
CopyPartOf(From, FromSize, To, ToSize) ==
  UNION {
    LET CopySize == Min(c + 1, FromSize) IN
    {[ret |-> ToSize,
      m |-> memcpy(To, ToBeg, Slice(From, FromBeg, CopySize)),
      info |-> Info("copy", CopySize, FromBeg, ToBeg)] :
       FromBeg \in Rand(FromSize - CopySize + 1)} :
    <<ToBeg, c>> \in {<<t, k>> \in Rand(ToSize) \X (0 .. ToSize) : k \in Rand(ToSize - t)}}

\* InsertPartOf reading the slice after the shift, with no staging.
InsertPartOf_NoStaging(From, FromSize, To, ToSize, MaxToSize, Same, MIPH) ==
  IF ToSize >= MaxToSize
  THEN {[ret |-> 0, m |-> To, MIPH |-> MIPH, info |-> Info("fail", 0, 0, 0)]}
  ELSE
    LET AvailableSpace == MaxToSize - ToSize
        MaxCopySize == Min(AvailableSpace, FromSize)
    IN UNION {
      LET CopySize == c + 1 IN
      {LET FromBeg == d[1]
           ToInsertPos == d[2]
           TailSize == ToSize - ToInsertPos
           Staged == memcpy(Mem(Resize(MIPH, MaxToSize)), 0,
                            Slice(From, FromBeg, CopySize)).buf
           Shifted == memmove(To, ToInsertPos + CopySize, ToInsertPos, TailSize)
       IN [ret |-> ToSize + CopySize,
           m |-> memcpy(Shifted, ToInsertPos,
                        IF Same THEN Slice(Shifted.buf, FromBeg, CopySize)
                        ELSE Slice(From, FromBeg, CopySize)),
           MIPH |-> IF Same THEN Staged ELSE MIPH,
           info |-> Info("insert", CopySize, FromBeg, ToInsertPos)] :
         d \in Rand(FromSize - CopySize + 1) \X Rand(ToSize + 1)} :
      c \in Rand(MaxCopySize)}

\* Outcomes [ret, m, MIPH, info].  Same says that To and From are one buffer.
InsertPartOf(From, FromSize, To, ToSize, MaxToSize, Same, MIPH) ==
  IF ToSize >= MaxToSize
  THEN {[ret |-> 0, m |-> To, MIPH |-> MIPH, info |-> Info("fail", 0, 0, 0)]}
  ELSE
    LET AvailableSpace == MaxToSize - ToSize
        MaxCopySize == Min(AvailableSpace, FromSize)
    IN UNION {
      LET CopySize == c + 1 IN
      {LET FromBeg == d[1]
           ToInsertPos == d[2]
           TailSize == ToSize - ToInsertPos
           Staged == memcpy(Mem(Resize(MIPH, MaxToSize)), 0,
                            Slice(From, FromBeg, CopySize)).buf
           Shifted == memmove(To, ToInsertPos + CopySize, ToInsertPos, TailSize)
       IN [ret |-> ToSize + CopySize,
           m |-> memcpy(Shifted, ToInsertPos,
                        IF Same THEN Slice(Staged, 0, CopySize)
                        ELSE Slice(From, FromBeg, CopySize)),
           MIPH |-> IF Same THEN Staged ELSE MIPH,
           info |-> Info("insert", CopySize, FromBeg, ToInsertPos)] :
         d \in Rand(FromSize - CopySize + 1) \X Rand(ToSize + 1)} :
      c \in Rand(MaxCopySize)}

Mutate_CopyPart(S, Sz, MaxSz) ==
  {Out(r.ret, [S EXCEPT !.Data = r.m], r.info) :
     r \in CopyPartOf(S.Data.buf, Sz, S.Data, Sz)}
  \cup
  {Out(r.ret, [S EXCEPT !.Data = r.m, !.MIPH = r.MIPH], r.info) :
     r \in InsertPartOf(S.Data.buf, Sz, S.Data, Sz, MaxSz, TRUE, S.MIPH)}

\* ---------------------------------------------------- integer-aware mutators
RECURSIVE SkipNonDigits(_, _, _)
SkipNonDigits(buf, B, Sz) ==
  IF B < Sz /\ ~isdigit(buf[B + 1]) THEN SkipNonDigits(buf, B + 1, Sz) ELSE B
RECURSIVE SkipDigits(_, _, _)
SkipDigits(buf, E, Sz) ==
  IF E < Sz /\ isdigit(buf[E + 1]) THEN SkipDigits(buf, E + 1, Sz) ELSE E
\* Val after the parsing loop has consumed Data[B .. i].
RECURSIVE ParseVal(_, _, _)
ParseVal(buf, B, i) ==
  IF i = B THEN buf[B + 1] - 48 ELSE ParseVal(buf, B, i - 1) * 10 + buf[i + 1] - 48

\* Val is a uint64_t.  A digit run has fewer than 10 digits here, so only
\* Val modulo 10^9 reaches the buffer, and 0 - 1 = 2^64 - 1 is kept as its
\* residue modulo 10^9.
kUint64MaxLow9 == 709551615
\* The values enumerated for the draw Rand(Val * Val).
DrawSample(n) == {x \in Rand(n) : x <= 1 \/ x = n - 1}
MutatedVal(Val) ==
  [case \in 0 .. 4 |->
     CASE case = 0 -> {Val + 1}
       [] case = 1 -> {IF Val = 0 THEN kUint64MaxLow9 ELSE Val - 1}
       [] case = 2 -> {Val \div 2}
       [] case = 3 -> {Val * 2}
       [] case = 4 -> DrawSample(Val * Val)]
\* The rendering loop writing the lowest-order digit first.
Digits_LowestFirst(V, B, E) == [j \in 1 .. E - B |-> ((V \div (10 ^ (j - 1))) % 10) + 48]
\* The digits the rendering loop writes into [B, E), leftmost first.
Digits(V, B, E) == [j \in 1 .. E - B |-> ((V \div (10 ^ (E - B - j))) % 10) + 48]

Mutate_ChangeASCIIInteger(S, Sz, MaxSz) ==
  UNION {
    LET B == SkipNonDigits(S.Data.buf, B0, Sz) IN
    IF B = Sz THEN {Out(0, S, Info("fail", 0, 0, 0))}
    ELSE LET E == SkipDigits(S.Data.buf, B, Sz)
             Val == ParseVal(S.Data.buf, B, E - 1)
         IN UNION {
              {Out(Sz, [S EXCEPT !.Data = memcpy(S.Data, B, Digits(V, B, E))],
                   Info("digits", B, E, case)) :
                 V \in MutatedVal(Val)[case]} :
              case \in Rand(5)} :
    B0 \in Rand(Sz)}

\* A T of w bytes is its bytes in memory order, least significant first.
RECURSIVE AddLE(_, _)
AddLE(v, c) ==
  IF v = <<>> THEN <<>>
  ELSE LET s == v[1] + c IN <<s % 256>> \o AddLE(Tail(v), s \div 256)
NegLE(v) == AddLE([i \in 1 .. Len(v) |-> 255 - v[i]], 1)
Bswap(v) == [i \in 1 .. Len(v) |-> v[Len(v) + 1 - i]]
\* The values enumerated for the draw Rand(21).
AddSample == {0, 9, 10, 11, 20}

ChangeBinaryInteger(w, S, Sz) ==
  IF Sz < w THEN {Out(0, S, Info("fail", 0, 0, 0))}
  ELSE UNION {
    LET Val == Slice(S.Data.buf, Off, w)
        Add == r - 10
        Added == {Bswap(AddLE(Bswap(Val), Add)), AddLE(Val, Add)}
        Negated == {NegLE(v) : v \in Added}
    IN {Out(Sz, [S EXCEPT !.Data = memcpy(S.Data, Off, v)], Info("binint", w, Off, r)) :
          v \in IF Add = 0 THEN Negated ELSE Negated \cup Added} :
    <<Off, r>> \in Rand(Sz - w + 1) \X (Rand(21) \cap AddSample)}

Mutate_ChangeBinaryInteger(S, Sz, MaxSz) ==
  UNION {ChangeBinaryInteger(2 ^ k, S, Sz) : k \in Rand(4)}

\* ----------------------------------------------------------------- crossover
\* A corpus unit is a byte sequence; Corpus.null says that no corpus is set.
\* CrossOver blends Data1 and Data2 into Out: outcomes [ret, m].
CrossOver(Data1, Size1, Data2, Size2, OutM, MaxOutSize) ==
  UNION {
    {[ret |-> a + b,
      m |-> memcpy(OutM, 0, Slice(Data1, 0, a) \o Slice(Data2, 0, b))] :
       b \in {x \in 0 .. Size2 : a + x >= 1 /\ a + x <= L + 1}} :
    <<L, a>> \in Rand(MaxOutSize) \X (0 .. Size1)}

\* ret = -1: an assertion failed.
AssertFailed == -1

Mutate_CrossOver(S, Sz, MaxSz) ==
  IF Corpus.null \/ Len(Corpus.units) < 2 \/ Sz = 0
  THEN {Out(0, S, Info("skip", 0, 0, 0))}
  ELSE UNION {
    LET O == Corpus.units[Idx + 1]
        U == Mem(Resize(S.MIPH, MaxSz))
        Done(NewSize, m, kind, CopySize) ==
          IF ~(NewSize > 0) \/ ~(NewSize <= MaxSz)
          THEN Out(AssertFailed, [S EXCEPT !.MIPH = m.buf], Info(kind, Idx, CopySize, 0))
          ELSE Out(NewSize,
                   [S EXCEPT !.MIPH = m.buf,
                             !.Data = memcpy(S.Data, 0, Slice(m.buf, 0, NewSize))],
                   Info(kind, Idx, CopySize, 0))
        Inserted == InsertPartOf(O, Len(O), U, Len(U.buf), MaxSz, FALSE, <<>>)
        Copied(kind) == {Done(r.ret, r.m, kind, r.info.a) :
                           r \in CopyPartOf(O, Len(O), U, Len(U.buf))}
    IN IF O = <<>> THEN {Out(0, S, Info("empty", Idx, 0, 0))}
       ELSE UNION {
         CASE case = 0 -> {Done(r.ret, r.m, "a", 0) :
                             r \in CrossOver(S.Data.buf, Sz, O, Len(O), U, Len(U.buf))}
           [] case = 1 -> {Done(r.ret, r.m, "b", r.info.a) :
                             r \in {x \in Inserted : x.ret # 0}}
                          \cup (IF \E x \in Inserted : x.ret = 0
                                THEN Copied("bc") ELSE {})
           [] case = 2 -> Copied("c") :
         case \in Rand(3)} :
    Idx \in Rand(Len(Corpus.units))}

\* ------------------------------------------------------ external callbacks
\* By how much a custom callback's result may exceed MaxSize.
MaxOversize == 1
\* The bytes a custom callback writes.
CustomBytes(n) == [i \in 1 .. n |-> 67]
\* LLVMFuzzerCustomMutator: outcomes [ret, m].  A result of 0 leaves Data alone.
LLVMFuzzerCustomMutator(DataM, Sz, MaxSz) ==
  {[ret |-> r,
    m |-> memcpy(DataM, 0, CustomBytes(Min(r, MaxSz)))] :
     r \in 0 .. MaxSz + MaxOversize}
\* LLVMFuzzerCustomCrossOver: outcomes [ret, m], m the Out buffer.
LLVMFuzzerCustomCrossOver(Data1, Size1, Data2, Size2, OutM, MaxOutSize) ==
  {[ret |-> r,
    m |-> memcpy(OutM, 0,
                 Slice(Slice(Data1, 0, Size1) \o Slice(Data2, 0, Size2)
                         \o CustomBytes(MaxOutSize),
                       0, Min(r, MaxOutSize)))] :
     r \in 0 .. MaxOutSize + MaxOversize}

Mutate_Custom(S, Sz, MaxSz) ==
  {Out(r.ret, [S EXCEPT !.Data = r.m], Info("custom", 0, 0, 0)) :
     r \in LLVMFuzzerCustomMutator(S.Data, Sz, MaxSz)}

Mutate_CustomCrossOver(S, Sz, MaxSz) ==
  IF Corpus.null \/ Len(Corpus.units) < 2 \/ Sz = 0
  THEN {Out(0, S, Info("skip", 0, 0, 0))}
  ELSE UNION {
    LET Other == Corpus.units[Idx + 1]
        U == Mem(Resize(S.MIPH, MaxSz))
    IN IF Other = <<>> THEN {Out(0, S, Info("empty", Idx, 0, 0))}
       ELSE {IF r.ret = 0
             THEN Out(0, [S EXCEPT !.MIPH = r.m.buf], Info("custom", Idx, 0, 0))
             ELSE IF ~(r.ret <= MaxSz)
             THEN Out(AssertFailed, [S EXCEPT !.MIPH = r.m.buf],
                      Info("custom", Idx, r.ret, 0))
             ELSE Out(r.ret,
                      [S EXCEPT !.MIPH = r.m.buf,
                                !.Data = memcpy(S.Data, 0, Slice(r.m.buf, 0, r.ret))],
                      Info("custom", Idx, r.ret, 0)) :
               r \in LLVMFuzzerCustomCrossOver(S.Data.buf, Sz, Other, Len(Other),
                                               U, Len(U.buf))} :
    Idx \in Rand(Len(Corpus.units))}

\* ------------------------------------------------------------ the registry
DefaultMutators ==
  <<"EraseBytes", "InsertByte", "InsertRepeatedBytes", "ChangeByte", "ChangeBit",
    "ShuffleBytes", "ChangeASCIIInt", "ChangeBinInt", "CopyPart", "CrossOver",
    "AddFromManualDict", "AddFromTempAutoDict", "AddFromPersAutoDict">>
Mutators ==
  (IF HasCustomMutator THEN <<"Custom">> ELSE DefaultMutators)
  \o (IF HasCustomCrossOver THEN <<"CustomCrossOver">> ELSE <<>>)

\* ------------------------------------------------------------------ inputs
\* The buffers a caller passes: the first Sz bytes of "A042B9CD", which are
\* all different and hold a digit run, in a buffer of MaxSz bytes.
Pattern == <<65, 48, 52, 50, 66, 57, 67, 68>>
Input(Sz, MaxSz) == [i \in 1 .. MaxSz |-> IF i <= Sz THEN Pattern[i] ELSE 0]
Words == {<<7>>, <<8, 9>>}
Hints == {NoPositionHint, 0}
\* The corpora a run is given: none, or two units of which one is empty.
Corpora == {[null |-> TRUE, units |-> <<>>],
            [null |-> FALSE, units |-> <<<<>>, <<20, 21, 22>>>>]}

NoOp(op) == [op |-> op, ret |-> 0, info |-> NoInfo, raw |-> Mem(<<>>)]

\* The dispatcher after its constructor.
Constructed ==
  /\ Data = <<>> /\ Size = 0 /\ MaxSize = 0 /\ Data0 = <<>>
  /\ pc = "idle" /\ Iter = 0 /\ Ret = 0
  /\ ManualDictionary = EmptyDictionary
  /\ TempAutoDictionary = EmptyDictionary
  /\ PersistentAutoDictionary = EmptyDictionary
  /\ CurrentMutatorSequence = <<>>
  /\ CurrentDictionaryEntrySequence = <<>>
  /\ MutateInPlaceHere = <<>>
  /\ Recommended = <<>>
  /\ last = NoOp("new")
  /\ ncalls = 0 /\ nrecs = 0

\* The configurations explored: every one with a custom mutator; with the
\* default registry alone, a corpus without ASCII folding, or ASCII folding
\* without a corpus.
Init ==
  /\ Constructed
  /\ Corpus \in Corpora
  /\ OnlyASCII \in BOOLEAN
  /\ HasCustomMutator \in BOOLEAN
  /\ HasCustomCrossOver \in BOOLEAN
  /\ HasCustomMutator \/ (~HasCustomCrossOver /\ (OnlyASCII <=> Corpus.null))

\* A dispatcher with the default registry, no corpus and no ASCII folding.
InitDict ==
  /\ Constructed
  /\ Corpus = [null |-> TRUE, units |-> <<>>]
  /\ OnlyASCII = FALSE
  /\ HasCustomMutator = FALSE
  /\ HasCustomCrossOver = FALSE

Config == <<Corpus, OnlyASCII, HasCustomMutator, HasCustomCrossOver>>
Dictionaries == <<ManualDictionary, TempAutoDictionary, PersistentAutoDictionary>>
Call == <<Data, Size, MaxSize, pc, Iter, Data0, Ret, ncalls>>

\* ----------------------------------------------------------------- MutateImpl
\* The Size == 0 path without the ToASCII call.
MutateImplFill_NoFold ==
  /\ pc = "idle" /\ ncalls < MaxCalls
  /\ \E MaxSz \in 1 .. MaxCap :
       \E fill \in [1 .. MaxSz -> RandCh] :
         /\ Data' = fill
         /\ Data0' = [i \in 1 .. MaxSz |-> 0]
         /\ Size' = 0 /\ MaxSize' = MaxSz /\ Ret' = MaxSz
         /\ last' = [op |-> "Fill", ret |-> MaxSz, info |-> NoInfo,
                     raw |-> memcpy(Mem(Data0'), 0, fill)]
  /\ ncalls' = ncalls + 1
  /\ UNCHANGED <<pc, Iter, Dictionaries, CurrentMutatorSequence,
                 CurrentDictionaryEntrySequence, MutateInPlaceHere, Config,
                 Recommended, nrecs>>

\* MutateImpl with Size = 0: the whole call.
MutateImplFill ==
  /\ pc = "idle" /\ ncalls < MaxCalls
  /\ \E MaxSz \in 1 .. MaxCap :
       \E fill \in [1 .. MaxSz -> RandCh] :
         /\ Data' = IF OnlyASCII THEN ToASCII(fill, MaxSz) ELSE fill
         /\ Data0' = [i \in 1 .. MaxSz |-> 0]
         /\ Size' = 0 /\ MaxSize' = MaxSz /\ Ret' = MaxSz
         /\ last' = [op |-> "Fill", ret |-> MaxSz, info |-> NoInfo,
                     raw |-> memcpy(Mem(Data0'), 0, fill)]
  /\ ncalls' = ncalls + 1
  /\ UNCHANGED <<pc, Iter, Dictionaries, CurrentMutatorSequence,
                 CurrentDictionaryEntrySequence, MutateInPlaceHere, Config,
                 Recommended, nrecs>>

\* MutateImpl with Size > 0, up to the loop; the caller's MaxSize is at most
\* Cap, and it makes at most Calls calls.
Enter(Cap, Calls) ==
  /\ pc = "idle" /\ ncalls < Calls
  /\ \E MaxSz \in 1 .. Cap : \E Sz \in 1 .. MaxSz :
       /\ Data' = Input(Sz, MaxSz) /\ Data0' = Input(Sz, MaxSz)
       /\ Size' = Sz /\ MaxSize' = MaxSz
  /\ pc' = "loop" /\ Iter' = 0 /\ ncalls' = ncalls + 1
  /\ last' = NoOp("Mutate")
  /\ UNCHANGED <<Ret, Dictionaries, CurrentMutatorSequence,
                 CurrentDictionaryEntrySequence, MutateInPlaceHere, Config,
                 Recommended, nrecs>>

MutateImplEnter == Enter(MaxCap, MaxCalls)
MutateImplEnterDict == Enter(MaxDictCap, MaxDictCalls)

\* One iteration of the loop, the drawn mutator being M with outcomes Outs.
\* Iter is a local of MutateImpl: it is 0 outside the loop.
Iteration(M, Outs) ==
  /\ pc = "loop" /\ Iter < kMaxIter
  /\ \E i \in Rand(Len(Mutators)) : Mutators[i + 1] = M
  /\ \E o \in Outs :
       /\ last' = [op |-> M, ret |-> o.ret, info |-> o.info, raw |-> o.st.Data]
       /\ ManualDictionary' = o.st.Manual
       /\ TempAutoDictionary' = o.st.Temp
       /\ PersistentAutoDictionary' = o.st.Pers
       /\ CurrentDictionaryEntrySequence' = o.st.CDES
       /\ MutateInPlaceHere' = o.st.MIPH
       /\ IF o.ret = AssertFailed
          THEN /\ pc' = "aborted" /\ Data' = o.st.Data.buf
               /\ UNCHANGED <<Iter, Ret, CurrentMutatorSequence>>
          ELSE IF o.ret # 0
          THEN /\ Data' = IF OnlyASCII THEN ToASCII(o.st.Data.buf, o.ret)
                          ELSE o.st.Data.buf
               /\ CurrentMutatorSequence' = Append(CurrentMutatorSequence, M)
               /\ Ret' = o.ret /\ pc' = "idle" /\ Iter' = 0
          ELSE /\ Data' = o.st.Data.buf /\ Iter' = Iter + 1
               /\ UNCHANGED <<pc, Ret, CurrentMutatorSequence>>
  /\ UNCHANGED <<Size, MaxSize, Data0, Config, Recommended, ncalls, nrecs>>

\* MutateImpl reporting 0 when the loop ran out of iterations.
MutateImplExhausted_ReturnsZero ==
  /\ pc = "loop" /\ ~(Iter < kMaxIter)
  /\ Ret' = 0 /\ pc' = "idle" /\ Iter' = 0
  /\ last' = [op |-> "Exhausted", ret |-> 0, info |-> Info("", Iter, 0, 0),
              raw |-> Mem(Data)]
  /\ UNCHANGED <<Data, Size, MaxSize, Data0, Dictionaries,
                 CurrentMutatorSequence, CurrentDictionaryEntrySequence,
                 MutateInPlaceHere, Config, Recommended, ncalls, nrecs>>

\* The loop ran out of iterations.
MutateImplExhausted ==
  /\ pc = "loop" /\ ~(Iter < kMaxIter)
  /\ Ret' = Size /\ pc' = "idle" /\ Iter' = 0
  /\ last' = [op |-> "Exhausted", ret |-> Size, info |-> Info("", Iter, 0, 0),
              raw |-> Mem(Data)]
  /\ UNCHANGED <<Data, Size, MaxSize, Data0, Dictionaries,
                 CurrentMutatorSequence, CurrentDictionaryEntrySequence,
                 MutateInPlaceHere, Config, Recommended, ncalls, nrecs>>

Try_EraseBytes == Iteration("EraseBytes", Mutate_EraseBytes(This, Size, MaxSize))
Try_InsertByte == Iteration("InsertByte", Mutate_InsertByte(This, Size, MaxSize))
Try_InsertRepeatedBytes ==
  Iteration("InsertRepeatedBytes", Mutate_InsertRepeatedBytes(This, Size, MaxSize))
Try_ChangeByte == Iteration("ChangeByte", Mutate_ChangeByte(This, Size, MaxSize))
Try_ChangeBit == Iteration("ChangeBit", Mutate_ChangeBit(This, Size, MaxSize))
Try_ShuffleBytes == Iteration("ShuffleBytes", Mutate_ShuffleBytes(This, Size, MaxSize))
Try_ChangeASCIIInteger ==
  Iteration("ChangeASCIIInt", Mutate_ChangeASCIIInteger(This, Size, MaxSize))
Try_ChangeBinaryInteger ==
  Iteration("ChangeBinInt", Mutate_ChangeBinaryInteger(This, Size, MaxSize))
Try_CopyPart == Iteration("CopyPart", Mutate_CopyPart(This, Size, MaxSize))
Try_CrossOver == Iteration("CrossOver", Mutate_CrossOver(This, Size, MaxSize))
Try_AddWordFromManualDictionary ==
  Iteration("AddFromManualDict", Mutate_AddWordFromManualDictionary(This, Size, MaxSize))
Try_AddWordFromTemporaryAutoDictionary ==
  Iteration("AddFromTempAutoDict",
            Mutate_AddWordFromTemporaryAutoDictionary(This, Size, MaxSize))
Try_AddWordFromPersistentAutoDictionary ==
  Iteration("AddFromPersAutoDict",
            Mutate_AddWordFromPersistentAutoDictionary(This, Size, MaxSize))
Try_Custom == Iteration("Custom", Mutate_Custom(This, Size, MaxSize))
Try_CustomCrossOver ==
  Iteration("CustomCrossOver", Mutate_CustomCrossOver(This, Size, MaxSize))

\* ------------------------------------------------------ sequence bookkeeping
StartMutationSequence ==
  /\ pc = "idle"
  /\ CurrentMutatorSequence' = <<>>
  /\ CurrentDictionaryEntrySequence' = <<>>
  /\ last' = NoOp("StartMutationSequence")
  /\ UNCHANGED <<Call, Dictionaries, MutateInPlaceHere, Config, Recommended, nrecs>>

\* The loop appending every used Word, with no ContainsWord check.
RECURSIVE RecordFrom_NoContainsWord(_, _, _)
RecordFrom_NoContainsWord(D, seq, k) ==
  IF k > Len(seq) THEN D
  ELSE LET p == seq[k]
           Inc == [D EXCEPT ![p.d].DE[p.i] = IncSuccessCount(@)]
           W == Inc[p.d].DE[p.i].W
       IN RecordFrom_NoContainsWord(
            [Inc EXCEPT !.Pers = push_back(@, EntryWithSuccessCountOne(W))],
            seq, k + 1)

\* The loop checking the manual dictionary as well before it appends.
RECURSIVE RecordFrom_AlsoManual(_, _, _)
RecordFrom_AlsoManual(D, seq, k) ==
  IF k > Len(seq) THEN D
  ELSE LET p == seq[k]
           Inc == [D EXCEPT ![p.d].DE[p.i] = IncSuccessCount(@)]
           W == Inc[p.d].DE[p.i].W
       IN RecordFrom_AlsoManual(
            IF ~ContainsWord(Inc.Pers, W) /\ ~ContainsWord(Inc.Manual, W)
            THEN [Inc EXCEPT !.Pers = push_back(@, EntryWithSuccessCountOne(W))]
            ELSE Inc,
            seq, k + 1)

\* The dictionaries after the loop has handled the entries seq[k ..].
RECURSIVE RecordFrom(_, _, _)
RecordFrom(D, seq, k) ==
  IF k > Len(seq) THEN D
  ELSE LET p == seq[k]
           Inc == [D EXCEPT ![p.d].DE[p.i] = IncSuccessCount(@)]
           W == Inc[p.d].DE[p.i].W
       IN RecordFrom(IF ~ContainsWord(Inc.Pers, W)
                     THEN [Inc EXCEPT !.Pers = push_back(@, EntryWithSuccessCountOne(W))]
                     ELSE Inc,
                     seq, k + 1)

RecordSuccessfulMutationSequence ==
  /\ pc = "idle" /\ nrecs < MaxRecs
  /\ LET D == RecordFrom([Manual |-> ManualDictionary, Temp |-> TempAutoDictionary,
                          Pers |-> PersistentAutoDictionary],
                         CurrentDictionaryEntrySequence, 1)
     IN /\ ManualDictionary' = D.Manual
        /\ TempAutoDictionary' = D.Temp
        /\ PersistentAutoDictionary' = D.Pers
  /\ last' = NoOp("RecordSuccessfulMutationSequence")
  /\ nrecs' = nrecs + 1
  /\ UNCHANGED <<Call, CurrentMutatorSequence, CurrentDictionaryEntrySequence,
                 MutateInPlaceHere, Config, Recommended>>

PrintRecommendedDictionary ==
  /\ pc = "idle"
  /\ Recommended' = SelectSeq(SubSeq(PersistentAutoDictionary.DE, 1,
                                     PersistentAutoDictionary.Size),
                              LAMBDA DE : ~ContainsWord(ManualDictionary, DE.W))
  /\ last' = NoOp("PrintRecommendedDictionary")
  /\ UNCHANGED <<Call, Dictionaries, CurrentMutatorSequence,
                 CurrentDictionaryEntrySequence, MutateInPlaceHere, Config, nrecs>>

AddWordToManualDictionary ==
  /\ pc = "idle" /\ ManualDictionary.Size < MaxDict
  /\ \E W \in Words :
       ManualDictionary' = push_back(ManualDictionary, DictionaryEntry(W, NoPositionHint))
  /\ last' = NoOp("AddWordToManualDictionary")
  /\ UNCHANGED <<Call, TempAutoDictionary, PersistentAutoDictionary,
                 CurrentMutatorSequence, CurrentDictionaryEntrySequence,
                 MutateInPlaceHere, Config, Recommended, nrecs>>

AddWordToAutoDictionary ==
  /\ pc = "idle" /\ TempAutoDictionary.Size < MaxDict
  /\ \E W \in Words : \E h \in Hints :
       TempAutoDictionary' =
         IF TempAutoDictionary.Size >= kMaxAutoDictSize THEN TempAutoDictionary
         ELSE push_back(TempAutoDictionary, DictionaryEntry(W, h))
  /\ last' = NoOp("AddWordToAutoDictionary")
  /\ UNCHANGED <<Call, ManualDictionary, PersistentAutoDictionary,
                 CurrentMutatorSequence, CurrentDictionaryEntrySequence,
                 MutateInPlaceHere, Config, Recommended, nrecs>>

ClearAutoDictionary ==
  /\ pc = "idle"
  /\ TempAutoDictionary' = clear(TempAutoDictionary)
  /\ last' = NoOp("ClearAutoDictionary")
  /\ UNCHANGED <<Call, ManualDictionary, PersistentAutoDictionary,
                 CurrentMutatorSequence, CurrentDictionaryEntrySequence,
                 MutateInPlaceHere, Config, Recommended, nrecs>>

\* Mutate calls on dictionaries the caller has filled.
Next ==
  \/ MutateImplFill
  \/ MutateImplEnter
  \/ Try_EraseBytes
  \/ Try_InsertByte
  \/ Try_InsertRepeatedBytes
  \/ Try_ChangeByte
  \/ Try_ChangeBit
  \/ Try_ShuffleBytes
  \/ Try_ChangeASCIIInteger
  \/ Try_ChangeBinaryInteger
  \/ Try_CopyPart
  \/ Try_CrossOver
  \/ Try_AddWordFromManualDictionary
  \/ Try_AddWordFromTemporaryAutoDictionary
  \/ Try_AddWordFromPersistentAutoDictionary
  \/ Try_Custom
  \/ Try_CustomCrossOver
  \/ MutateImplExhausted
  \/ AddWordToManualDictionary
  \/ AddWordToAutoDictionary

Spec == Init /\ [][Next]_vars

\* Mutation chains whose draws pick the dictionary mutators, and the
\* bookkeeping around them.
NextDict ==
  \/ MutateImplEnterDict
  \/ Try_AddWordFromManualDictionary
  \/ Try_AddWordFromTemporaryAutoDictionary
  \/ Try_AddWordFromPersistentAutoDictionary
  \/ MutateImplExhausted
  \/ StartMutationSequence
  \/ RecordSuccessfulMutationSequence
  \/ PrintRecommendedDictionary
  \/ AddWordToManualDictionary
  \/ AddWordToAutoDictionary
  \/ ClearAutoDictionary

SpecDict == InitDict /\ [][NextDict]_vars

\* ==================================================================== claims
Range(f) == {f[i] : i \in DOMAIN f}
DefaultNames == Range(DefaultMutators)
DictNames == {"AddFromManualDict", "AddFromTempAutoDict", "AddFromPersAutoDict"}

\* C1: every mutator of the default registry, called with 0 < Size <= MaxSize,
\* returns 0 or a size in 1 .. MaxSize, and writes no offset >= MaxSize.
C1_SizeAndWritesWithinMaxSize ==
  last.op \in DefaultNames =>
    /\ last.ret = 0 \/ (1 <= last.ret /\ last.ret <= MaxSize)
    /\ last.raw.hi <= MaxSize

\* An insertion that fills the buffer to its last byte.
C1_Witness ==
  /\ last.op = "CopyPart" /\ last.info.kind = "insert"
  /\ Size < MaxSize /\ last.ret = MaxSize /\ last.raw.hi = MaxSize

\* C2: the loop makes at most 10 attempts and ends at the first attempt that
\* returns nonzero; an attempt that returns 0 leaves the buffer and the
\* mutator sequence alone; after 10 such attempts Mutate returns Size, with
\* Data[0 .. Size) as the caller passed it and nothing appended.
C2_RetriesThenReturnsInputUnchanged ==
  /\ [](pc = "loop" => Iter <= kMaxIter /\ Data = Data0)
  /\ [][pc = "loop" =>
          /\ last'.op # "Exhausted" /\ last'.ret = 0 =>
               /\ pc' = "loop" /\ Iter' = Iter + 1 /\ Data' = Data
               /\ CurrentMutatorSequence' = CurrentMutatorSequence
          /\ last'.op # "Exhausted" /\ last'.ret > 0 =>
               /\ pc' = "idle" /\ Ret' = last'.ret
               /\ CurrentMutatorSequence' = Append(CurrentMutatorSequence, last'.op)
          /\ last'.op = "Exhausted" =>
               /\ Iter = kMaxIter /\ pc' = "idle" /\ Ret' = Size
               /\ SubSeq(Data', 1, Size) = SubSeq(Data0, 1, Size)
               /\ CurrentMutatorSequence' = CurrentMutatorSequence]_vars

\* Ten attempts of the default registry failed.
C2_Witness ==
  /\ last.op = "Exhausted" /\ last.info.a = kMaxIter /\ ~HasCustomMutator
  /\ pc = "idle" /\ Ret = Size

\* The three dictionaries, by the name a sequence entry points into.
Dicts == [Manual |-> ManualDictionary, Temp |-> TempAutoDictionary,
          Pers |-> PersistentAutoDictionary]
DictKey(op) == CASE op = "AddFromManualDict" -> "Manual"
                 [] op = "AddFromTempAutoDict" -> "Temp"
                 [] op = "AddFromPersAutoDict" -> "Pers"
WordAt(p) == Dicts[p.d].DE[p.i].W
WordsOf(D) == {D.DE[i].W : i \in 1 .. D.Size}
RecordStep == nrecs' = nrecs + 1

\* C3: RecordSuccessfulMutationSequence raises the success counter of every
\* entry of the current-dictionary-entry-sequence by exactly 1, however many
\* times the entry occurs in the sequence.
C3_SuccessCountOncePerDistinctEntry ==
  [][RecordStep =>
       \A k \in 1 .. Len(CurrentDictionaryEntrySequence) :
         LET p == CurrentDictionaryEntrySequence[k]
         IN Dicts'[p.d].DE[p.i].SuccessCount = Dicts[p.d].DE[p.i].SuccessCount + 1]_vars

C5_NoWordInManualAndPersistent ==
  WordsOf(ManualDictionary) \cap WordsOf(PersistentAutoDictionary) = {}

\* C5, amended: the persistent-automatic dictionary is deduplicated against
\* itself only.  RecordSuccessfulMutationSequence leaves the Word of every used
\* entry in it, Words of the manual dictionary included, and removes none;
\* PrintRecommendedDictionary is what leaves the manual Words out.
C5_RecordKeepsEveryUsedWord ==
  /\ [][RecordStep =>
          /\ WordsOf(PersistentAutoDictionary) \subseteq WordsOf(PersistentAutoDictionary')
          /\ \A k \in 1 .. Len(CurrentDictionaryEntrySequence) :
               WordAt(CurrentDictionaryEntrySequence[k]) \in WordsOf(PersistentAutoDictionary')]_vars
  /\ [][last'.op = "PrintRecommendedDictionary" =>
          {Recommended'[i].W : i \in 1 .. Len(Recommended')}
            = WordsOf(PersistentAutoDictionary) \ WordsOf(ManualDictionary)]_vars

\* A recorded chain that used an entry of the manual dictionary.
C5_Witness ==
  /\ last.op = "RecordSuccessfulMutationSequence"
  /\ \E k \in 1 .. Len(CurrentDictionaryEntrySequence) :
       /\ CurrentDictionaryEntrySequence[k].d = "Manual"
       /\ WordAt(CurrentDictionaryEntrySequence[k]) \in WordsOf(PersistentAutoDictionary)
       /\ WordAt(CurrentDictionaryEntrySequence[k]) \in WordsOf(ManualDictionary)

\* C6: a dictionary mutation either returns 0 and changes neither the buffer,
\* nor any counter, nor the current-dictionary-entry-sequence, or returns a
\* size in 1 .. MaxSize, raises the use counter of the chosen entry by 1 and
\* of no other, and appends that entry once to the sequence; the insertion
\* fails exactly when Size + |W| > MaxSize, the overwrite exactly when
\* |W| > Size.
C6_DictionaryMutationOutcomes ==
  [][pc = "loop" /\ last'.op \in DictNames =>
       LET d == DictKey(last'.op)
           e == last'.info.a
           c == last'.info.c
       IN /\ \/ /\ last'.ret = 0
                /\ Data' = Data /\ Dicts' = Dicts
                /\ CurrentDictionaryEntrySequence' = CurrentDictionaryEntrySequence
             \/ /\ 1 <= last'.ret /\ last'.ret <= MaxSize
                /\ e \in 1 .. Dicts[d].Size
                /\ Dicts' = [Dicts EXCEPT ![d].DE[e].UseCount = @ + 1]
                /\ CurrentDictionaryEntrySequence'
                     = Append(CurrentDictionaryEntrySequence, [d |-> d, i |-> e])
          /\ last'.info.kind \in {"empty", "insert", "overwrite"}
          /\ last'.info.kind = "empty" => Dicts[d].Size = 0 /\ last'.ret = 0
          /\ last'.info.kind # "empty" => c = Len(Dicts[d].DE[e].W)
          /\ last'.info.kind = "insert" => (last'.ret = 0 <=> Size + c > MaxSize)
          /\ last'.info.kind = "overwrite" => (last'.ret = 0 <=> c > Size)]_vars

\* A Word inserted into a buffer it fills to the last byte.
C6_Witness ==
  /\ last.op \in DictNames /\ last.info.kind = "insert"
  /\ last.ret = MaxSize /\ Size < MaxSize
  /\ Dicts[DictKey(last.op)].DE[last.info.a].UseCount = 1

Repeat(b, n) == [i \in 1 .. n |-> b]
BytesOf(seq) == {seq[i] : i \in 1 .. Len(seq)}

\* C7: InsertRepeatedBytes returns 0 exactly when MaxSize - Size < 3;
\* otherwise it returns Size + N with N in 3 .. min(128, MaxSize - Size), the
\* N inserted bytes are one value, and the original bytes stay in order
\* around the run.
C7_InsertRepeatedBytesNeedsThreeBytes ==
  last.op = "InsertRepeatedBytes" =>
    /\ last.ret = 0 <=> MaxSize - Size < kMinBytesToInsert
    /\ last.ret # 0 =>
         LET N == last.info.a
             Idx == last.info.b
         IN /\ N \in kMinBytesToInsert .. Min(kMaxBytesToInsert, MaxSize - Size)
            /\ last.ret = Size + N
            /\ SubSeq(last.raw.buf, 1, last.ret)
                 = SubSeq(Data0, 1, Idx) \o Repeat(last.info.c, N)
                     \o SubSeq(Data0, Idx + 1, Size)

\* C8: strategies (b) and (c) of Mutate_CrossOver work on a copy of the
\* current buffer: (c) returns Size, (b) returns Size plus the slice length
\* and does not fall through to (c) while Size < MaxSize, and every byte of
\* the result is a byte of the buffer before the call or of the chosen unit.
C8_CrossOverWorksOnCopyOfData ==
  last.op = "CrossOver" /\ last.info.kind \in {"b", "bc", "c"} =>
    /\ last.ret # AssertFailed
    /\ last.info.kind = "c" => last.ret = Size
    /\ last.info.kind = "b" => last.ret = Size + last.info.b
    /\ last.info.kind = "bc" => Size = MaxSize /\ last.ret = Size
    /\ BytesOf(SubSeq(last.raw.buf, 1, last.ret))
         \subseteq BytesOf(SubSeq(Data0, 1, Size))
                     \cup BytesOf(Corpus.units[last.info.a + 1])

\* C9: InsertPartOf of a buffer into itself, with room left, yields
\* old[0 .. ToInsertPos) \o old[FromBeg .. FromBeg + CopySize)
\* \o old[ToInsertPos .. ToSize), old being the buffer before the call.
C9_SelfInsertKeepsData ==
  [][pc = "loop" /\ last'.op = "CopyPart" /\ last'.info.kind = "insert" =>
       LET CopySize == last'.info.a
           FromBeg == last'.info.b
           ToInsertPos == last'.info.c
       IN /\ Size < MaxSize /\ CopySize >= 1
          /\ last'.ret = Size + CopySize
          /\ SubSeq(last'.raw.buf, 1, last'.ret)
               = SubSeq(Data, 1, ToInsertPos)
                   \o SubSeq(Data, FromBeg + 1, FromBeg + CopySize)
                   \o SubSeq(Data, ToInsertPos + 1, Size)]_vars

\* A slice inserted in front of its own position: the shift moves the bytes the
\* slice is made of.
C9_Witness ==
  /\ last.op = "CopyPart" /\ last.info.kind = "insert"
  /\ last.info.a >= 2 /\ last.info.c <= last.info.b
  /\ last.ret = Size + last.info.a
  /\ SubSeq(last.raw.buf, last.info.c + 1, last.info.c + last.info.a)
       = SubSeq(Data0, last.info.b + 1, last.info.b + last.info.a)

\* C10: a size above MaxSize returned by LLVMFuzzerCustomMutator or
\* LLVMFuzzerCustomCrossOver stops the engine at an assertion: the mutator
\* does not return it, Mutate does not return it, and the mutator is not
\* recorded in the current-mutator-sequence.
C10_CallbackSizeValidated ==
  last.op \in {"Custom", "CustomCrossOver"} =>
    /\ last.ret <= MaxSize
    /\ pc = "idle" => Ret <= MaxSize
    /\ last.ret = AssertFailed =>
         /\ pc = "aborted"
         /\ \A i \in 1 .. Len(CurrentMutatorSequence) : CurrentMutatorSequence[i] # last.op

\* The number a sequence of digit characters spells.
RECURSIVE DecimalValue(_)
DecimalValue(ds) ==
  IF ds = <<>> THEN 0
  ELSE DecimalValue(SubSeq(ds, 1, Len(ds) - 1)) * 10 + (ds[Len(ds)] - 48)
\* The w lowest-order decimal digits of v, right-aligned and zero-padded.
LowDigits(v, w) == [j \in 1 .. w |-> ((v \div (10 ^ (w - j))) % 10) + 48]

\* C11: ChangeASCIIInteger, having found the digit run [B, E), returns Size,
\* touches no byte outside [B, E), and writes into [B, E) the E - B
\* lowest-order decimal digits of the mutated 64-bit value; it returns 0,
\* writing nothing, only when no digit is at or after the start offset.
C11_ASCIIIntegerRewritesRunInPlace ==
  [][pc = "loop" /\ last'.op = "ChangeASCIIInt" =>
       IF last'.ret = 0
       THEN /\ ~isdigit(Data[Size])
            /\ last'.raw.buf = Data /\ last'.raw.hi = 0
       ELSE LET B == last'.info.a
                E == last'.info.b
                w == E - B
                Val == DecimalValue(SubSeq(Data, B + 1, E))
                New == SubSeq(last'.raw.buf, B + 1, E)
            IN /\ last'.info.kind = "digits" /\ last'.ret = Size
               /\ 0 <= B /\ B < E /\ E <= Size
               /\ \A i \in B + 1 .. E : isdigit(Data[i])
               /\ E < Size => ~isdigit(Data[E + 1])
               /\ \A i \in 1 .. Len(Data) :
                    (i <= B \/ i > E) => last'.raw.buf[i] = Data[i]
               /\ Len(last'.raw.buf) = Len(Data) /\ last'.raw.hi <= E
               /\ \A i \in 1 .. w : isdigit(New[i])
               /\ CASE last'.info.c = 0 -> New = LowDigits(Val + 1, w)
                    [] last'.info.c = 1 ->
                         New = LowDigits(IF Val = 0 THEN 709551615 ELSE Val - 1, w)
                    [] last'.info.c = 2 -> New = LowDigits(Val \div 2, w)
                    [] last'.info.c = 3 -> New = LowDigits(Val * 2, w)
                    [] last'.info.c = 4 -> Val > 0 => DecimalValue(New) < Val * Val]_vars

\* The run "042" under the increment branch became "043".
C11_Witness ==
  /\ last.op = "ChangeASCIIInt" /\ last.info.kind = "digits" /\ last.info.c = 0
  /\ last.ret = Size /\ last.info.b - last.info.a = 3
  /\ SubSeq(Data0, last.info.a + 1, last.info.b) = <<48, 52, 50>>
  /\ SubSeq(last.raw.buf, last.info.a + 1, last.info.b) = <<48, 52, 51>>

\* C12: Mutate with Size = 0 and MaxSize > 0 writes a fresh byte to each of
\* Data[0 .. MaxSize), folds all of them to ASCII when OnlyASCII is set,
\* returns MaxSize, runs no mutator and appends nothing to the
\* current-mutator-sequence or the current-dictionary-entry-sequence.
C12_EmptyInputIsFilledToMaxSize ==
  [][last'.op = "Fill" =>
       /\ pc = "idle" /\ pc' = "idle" /\ Size' = 0 /\ MaxSize' > 0
       /\ Ret' = MaxSize'
       /\ Len(Data') = MaxSize' /\ last'.raw.hi = MaxSize'
       /\ \A i \in 1 .. MaxSize' :
            /\ last'.raw.buf[i] \in RandCh
            /\ Data'[i] = IF OnlyASCII THEN ToASCIIByte(last'.raw.buf[i])
                          ELSE last'.raw.buf[i]
            /\ OnlyASCII => Data'[i] < 128 /\ (isprint(Data'[i]) \/ isspace(Data'[i]))
       /\ CurrentMutatorSequence' = CurrentMutatorSequence
       /\ CurrentDictionaryEntrySequence' = CurrentDictionaryEntrySequence
       /\ Dicts' = Dicts /\ MutateInPlaceHere' = MutateInPlaceHere]_vars

\* An empty input filled with OnlyASCII set; a byte drawn as 0xff was folded.
C12_Witness ==
  /\ last.op = "Fill" /\ OnlyASCII /\ Size = 0 /\ MaxSize >= 2 /\ Ret = MaxSize
  /\ \E i \in 1 .. MaxSize : last.raw.buf[i] = 255 /\ Data[i] = 32

\* C13: no mutator of the default registry draws Rand(0): the bound of
\* ShuffleBytes' draw Rand(Size - ShuffleAmount), of the dictionary overwrite's
\* draw Rand(Size - |W|) and of ChangeASCIIInteger's draw Rand(Val * Val) is
\* positive whenever the draw is made.
C13_NoDrawWithBoundZero ==
  [][pc = "loop" /\ last'.op \in DefaultNames /\ last'.ret > 0 =>
       /\ last'.op = "ShuffleBytes" => Size - last'.info.a > 0
       /\ last'.op \in DictNames /\ last'.info.kind = "overwrite" =>
            Size - last'.info.c > 0
       /\ last'.op = "ChangeASCIIInt" /\ last'.info.c = 4 =>
            LET Val == DecimalValue(SubSeq(Data, last'.info.a + 1, last'.info.b))
            IN Val * Val > 0]_vars

====
